---- MODULE Spec2Model ----
(***************************************************************************)
(* Clippr indexer: the watch registry (PublicKeyRegistry), its durable     *)
(* table subscribed_keys and in-memory cache active_keys, the connection   *)
(* loop and message dispatch of the Yellowstone subscriber, and the two    *)
(* processor tasks that drain the event queues.                            *)
(*                                                                         *)
(* Every registry operation is split at its await points: the SQL          *)
(* statement is one atomic step, the cache update under the write lock is  *)
(* a second atomic step.  Spec interleaves the steps of several handlers;  *)
(* SeqSpec lets a new operation start only when no operation is in flight. *)
(* StreamSpec and SubscriberSpec follow the subscriber task through        *)
(* connect, subscribe, stream and backoff; FanoutSpec runs the processors. *)
(***************************************************************************)
EXTENDS Integers, Sequences, FiniteSets, TLC

\* ------------------------------------------------------------------ bounds
\* Number of SubscribedKey ids (Uuid::new_v4) that can be drawn.
MaxIds == 2
\* Largest lamports value carried by an account notification.
MaxLamports == 2
\* Largest number of keys in one bulk request.
MaxBulk == 3
\* Largest threshold and share count given to key generation.
MaxShares == 4
\* Largest amount of one deposit or transfer request.
MaxAmount == 2
\* Largest balance a row reaches.
MaxBalance == 3

\* ------------------------------------------------------- program constants
\* registry.rs:163  public_key.len() != 44
KEY_LEN == 44
\* registry.rs:170  bytes.len() != 32
DECODED_LEN == 32
\* subscriber.rs:52  max_reconnect_attempts
MAX_RECONNECT_ATTEMPTS == 10
\* subscriber.rs:69  reconnect_attempts.min(6)
BACKOFF_EXP_CAP == 6
\* subscriber.rs:69  2_u64.pow(..)
BACKOFF_BASE == 2
\* subscriber.rs:90  sleep(Duration::from_secs(30))
IDLE_SECS == 30

\* ------------------------------------------------------------------ base58
\* The Bitcoin alphabet used by bs58 (no 0, O, I, l).
Alphabet ==
  << "1","2","3","4","5","6","7","8","9",
     "A","B","C","D","E","F","G","H","J","K","L","M","N","P","Q","R","S","T",
     "U","V","W","X","Y","Z",
     "a","b","c","d","e","f","g","h","i","j","k","m","n","o","p","q","r","s",
     "t","u","v","w","x","y","z" >>

Radix == Len(Alphabet)

Rep(c, n) == [i \in 1..n |-> c]

\* Value of a character in the alphabet, or -1 for a character outside it.
DigitOf(c) ==
  IF \E i \in 1..Radix : Alphabet[i] = c
  THEN (CHOOSE i \in 1..Radix : Alphabet[i] = c) - 1
  ELSE -1

RECURSIVE MulAdd(_, _, _, _)
\* One pass of the bs58 inner loop over the little-endian output: every
\* digit becomes (digit * mul + carry) mod base, the final carry is appended.
MulAdd(out, carry, mul, base) ==
  IF out = <<>>
  THEN IF carry = 0 THEN <<>>
       ELSE <<carry % base>> \o MulAdd(<<>>, carry \div base, mul, base)
  ELSE LET v == carry + Head(out) * mul
       IN  <<v % base>> \o MulAdd(Tail(out), v \div base, mul, base)

RECURSIVE LeadingCount(_, _)
LeadingCount(s, z) ==
  IF s # <<>> /\ Head(s) = z THEN 1 + LeadingCount(Tail(s), z) ELSE 0

Reverse(s) == [i \in 1..Len(s) |-> s[Len(s) + 1 - i]]

RECURSIVE DecodeDigits(_, _)
DecodeDigits(chars, out) ==
  IF chars = <<>> THEN out
  ELSE DecodeDigits(Tail(chars), MulAdd(out, DigitOf(Head(chars)), Radix, 256))

\* bs58::decode(..).into_vec(): Err on a character outside the alphabet,
\* otherwise the big-endian bytes, one zero byte per leading '1'.
bs58_decode(chars) ==
  IF \E i \in 1..Len(chars) : DigitOf(chars[i]) < 0
  THEN [ok |-> FALSE, bytes |-> <<>>]
  ELSE [ok |-> TRUE,
        bytes |-> Reverse(DecodeDigits(chars, <<>>)
                          \o Rep(0, LeadingCount(chars, Alphabet[1])))]

RECURSIVE EncodeBytes(_, _)
EncodeBytes(bytes, out) ==
  IF bytes = <<>> THEN out
  ELSE EncodeBytes(Tail(bytes), MulAdd(out, Head(bytes), 256, Radix))

\* bs58::encode(..).into_string()
bs58_encode(bytes) ==
  LET digits == Reverse(EncodeBytes(bytes, <<>>) \o Rep(0, LeadingCount(bytes, 0)))
  IN  [i \in 1..Len(digits) |-> Alphabet[digits[i] + 1]]

\* ------------------------------------------------------------------ inputs
Users == {"u1", "u2"}
\* One subscription kind is enough to exercise the upsert.
SubscriptionTypes == {"account"}

\* Two well-formed keys (the second with a leading '1', i.e. a leading zero
\* byte) and one malformed key of every kind: 43 characters; the 32
\* characters of the all-zero key; 44 characters decoding to 33 bytes; 44
\* characters decoding to 44 bytes; a character outside the alphabet.
KeyA      == "22222222222222222222222222222222222222222222"
KeyLead1  == "12222222222222222222222222222222222222222222"
KeyShort  == "2222222222222222222222222222222222222222222"
KeySystem == "11111111111111111111111111111111"
KeyBig    == "zzzzzzzzzzzzzzzzzzzzzzzzzzzzzzzzzzzzzzzzzzzz"
KeyOnes   == "11111111111111111111111111111111111111111111"
KeyBadChr == "02222222222222222222222222222222222222222222"

\* The characters of an input string.
Chars(s) ==
  CASE s = KeyA      -> Rep("2", 44)
    [] s = KeyLead1  -> <<"1">> \o Rep("2", 43)
    [] s = KeyShort  -> Rep("2", 43)
    [] s = KeySystem -> Rep("1", 32)
    [] s = KeyBig    -> Rep("z", 44)
    [] s = KeyOnes   -> Rep("1", 44)
    [] s = KeyBadChr -> <<"0">> \o Rep("2", 43)

PublicKeyInputs ==
  {KeyA, KeyLead1, KeyShort, KeySystem, KeyBig, KeyOnes, KeyBadChr}

\* The input string made of the given characters.
Str(chars) == CHOOSE s \in PublicKeyInputs : Chars(s) = chars

\* Inputs of the interleaved specification: both well-formed keys and one
\* malformed key.
ConcurrentKeys == {KeyA, KeyLead1, KeyBig}

\* Keys of Remove requests (remove_public_key validates nothing: a key with
\* no row behaves the same whatever its text).
RemoveKeys == {KeyA, KeyLead1, KeyBig}

\* Account notifications carry the 32 raw bytes of a key: the two well-formed
\* inputs and the all-zero key, whose text has 32 characters and is never
\* accepted by Add.
AccountPubkeys ==
  {bs58_decode(Chars(KeyA)).bytes, bs58_decode(Chars(KeyLead1)).bytes,
   Rep(0, 32)}
Lamports == 0..MaxLamports
Slots == {7}

\* ------------------------------------------------------------------- state
VARIABLES
  subscribed_keys,   \* durable table: rows, unique on (user_id, public_key)
  active_keys,       \* PublicKeyRegistry.active_keys, the cache
  next_uuid,         \* number of ids drawn so far by SubscribedKey::new
  task,              \* per task: the registry call in flight, if any
  observing,         \* which history this behaviour records: "calls", "acks"
  last,              \* the registry call that returned last, and its result
  acked,             \* keys whose Add was acknowledged with no Remove of the
                     \* key in flight, and no Remove issued since
  balance_tx,        \* queue of BalanceUpdate sent to the balance processor
  transaction_tx,    \* queue of TransactionEvent sent to the processor
  balance_updates,   \* durable table written by store_balance_update
  last_msg,          \* the stream message handled last
  pc,                \* where YellowstoneSubscriber::start stands
  reconnect_attempts,\* start's local counter
  client,            \* TRUE while a connected GeyserGrpcClient is alive
  subscribe_request, \* the SubscribeRequest of the connection, if built
  sleeping,          \* seconds of the sleep in progress, 0 when awake
  slept,             \* backoff sleeps begun since connect_and_subscribe
                     \* last returned Ok, in order
  received,          \* a message was read in this call of
                     \* connect_and_subscribe
  outcome,           \* how connect_and_subscribe returned last: "idle",
                     \* "session_ok" (the stream ended after a message),
                     \* "stream_closed" (it ended before any), or the
                     \* step that failed
  balance_proc,      \* start_balance_processor: where it stands, and the
                     \* event it holds
  transaction_proc,  \* start_transaction_processor: the same
  notified,          \* the POSTs made to the backend and how each ended
  senders_open,      \* a YellowstoneSubscriber, owner of both senders,
                     \* is alive
  keygen,            \* MPC service: the key generation call made last and
                     \* what it returned
  balances,          \* ledger store: the rows of the table balances
  ledger_last        \* ledger store: the call made last and its result

subscriber_rest == <<reconnect_attempts, client, subscribe_request, sleeping,
                     slept, received, outcome>>
subscriber_vars == <<pc, subscriber_rest>>
processor_vars == <<balance_proc, transaction_proc, notified, senders_open>>
\* The MPC service and the ledger store are other programs of the
\* repository: no step of the indexer touches their state.
service_vars == <<keygen, balances, ledger_last>>

vars == <<subscribed_keys, active_keys, next_uuid, task, observing, last, acked,
          balance_tx, transaction_tx, balance_updates, last_msg,
          subscriber_vars, processor_vars, service_vars>>

registry_vars == <<subscribed_keys, active_keys, next_uuid, task, last, acked>>
stream_vars   == <<balance_tx, transaction_tx, balance_updates, last_msg>>

\* The task spawned in main.rs:79 that runs YellowstoneSubscriber::start.
StreamTask == "stream"
\* Two HTTP handler tasks (actix workers) run registry calls concurrently.
Handlers == {"http1", "http2"}
Tasks == {StreamTask} \cup Handlers

\* No key generation call and no ledger call has been made.
NoKeygen == [fn |-> "none"]
NoLedgerCall == [op |-> "none"]

NoKey == ""
Idle == [op |-> "idle", user_id |-> "", public_key |-> NoKey, id |-> 0,
         pre |-> "", rows |-> {}]
NoCall == [op |-> "none", user_id |-> "", public_key |-> NoKey, result |-> "",
           id |-> 0, pre |-> ""]
NoMsg == [kind |-> "none", present |-> FALSE, pubkey |-> NoKey, lamports |-> 0,
          accounts |-> {}, monitored |-> FALSE, balance_len |-> 0,
          transaction_len |-> 0]

\* ---------------------------------------------------------------- registry
\* Mutant: the decoded length is not checked.
validate_public_key_NoDecodedLength(public_key) ==
  IF Len(Chars(public_key)) # KEY_LEN THEN "invalid_length"
  ELSE IF bs58_decode(Chars(public_key)).ok THEN "ok" ELSE "invalid_base58"

\* validate_public_key: "ok" or the error it returns.
validate_public_key(public_key) ==
  IF Len(Chars(public_key)) # KEY_LEN THEN "invalid_length"
  ELSE LET decoded == bs58_decode(Chars(public_key))
       IN  IF decoded.ok
           THEN IF Len(decoded.bytes) # DECODED_LEN
                THEN "invalid_decoded_length"
                ELSE "ok"
           ELSE "invalid_base58"

\* The validation result of every input, computed once.
Validation == [k \in PublicKeyInputs |-> validate_public_key(k)]

\* Mutant: the WHERE clause is missing.
SelectAllKeys(table) == {r.public_key : r \in table}

\* SELECT public_key FROM subscribed_keys WHERE is_active = true
SelectActiveKeys(table) == {r.public_key : r \in {x \in table : x.is_active}}

RowsOf(table, user_id, public_key) ==
  {r \in table : r.user_id = user_id /\ r.public_key = public_key}

\* SubscribedKey::new: a fresh id, is_active = true.
SubscribedKeyNew(user_id, public_key, subscription_type) ==
  [id |-> next_uuid + 1, user_id |-> user_id, public_key |-> public_key,
   is_active |-> TRUE, subscription_type |-> subscription_type]

\* INSERT ... ON CONFLICT (user_id, public_key) DO UPDATE SET is_active,
\* subscription_type, updated_at: the conflicting row keeps its id.
Upsert(table, sk) ==
  LET old == RowsOf(table, sk.user_id, sk.public_key)
  IN  IF old = {} THEN table \cup {sk}
      ELSE (table \ old) \cup
           {[r EXCEPT !.is_active = sk.is_active,
                      !.subscription_type = sk.subscription_type] : r \in old}

\* UPDATE subscribed_keys SET is_active = false WHERE user_id = $1 AND
\* public_key = $2: every row of the pair is matched, active or not.
Deactivate(table, user_id, public_key) ==
  LET hit == RowsOf(table, user_id, public_key)
  IN  (table \ hit) \cup {[r EXCEPT !.is_active = FALSE] : r \in hit}

RowsAffected(table, user_id, public_key) ==
  Cardinality(RowsOf(table, user_id, public_key))

\* is_key_monitored
is_key_monitored(public_key) == public_key \in active_keys

\* get_active_public_keys: a copy of the cache
get_active_public_keys == active_keys

\* get_key_subscription: the stub returns Ok(None) for every key.
NoSubscription == [found |-> FALSE, user_id |-> ""]
get_key_subscription(public_key) == NoSubscription

\* The record of a call that returns, kept in `last` when observing.
Returned(op, user_id, public_key, result, id, pre) ==
  IF observing = "calls"
  THEN [op |-> op, user_id |-> user_id, public_key |-> public_key,
        result |-> result, id |-> id, pre |-> pre]
  ELSE last

\* State of the (user, key) row before a statement touches it.
RowState(user_id, public_key) ==
  LET hit == RowsOf(subscribed_keys, user_id, public_key)
  IN  IF hit = {} THEN "absent"
      ELSE IF \E r \in hit : r.is_active THEN "active" ELSE "inactive"

\* add_public_key, validation fails: Err before any statement is issued.
AddInvalid(p, user_id, public_key, subscription_type) ==
  /\ task[p] = Idle
  /\ Validation[public_key] # "ok"
  /\ last' = Returned("add", user_id, public_key, Validation[public_key], 0, "")
  /\ UNCHANGED <<subscribed_keys, active_keys, next_uuid, task, acked>>

\* Mutant: the key is put in the cache before the upsert is acknowledged.
AddStoreFail_Speculative(p, user_id, public_key, subscription_type) ==
  /\ task[p] = Idle
  /\ Validation[public_key] = "ok"
  /\ active_keys' = active_keys \cup {public_key}
  /\ last' = Returned("add", user_id, public_key, "store_error", 0,
                      RowState(user_id, public_key))
  /\ UNCHANGED <<subscribed_keys, next_uuid, task, acked>>

\* add_public_key, the upsert fails: `.await?` returns the error.
AddStoreFail(p, user_id, public_key, subscription_type) ==
  /\ task[p] = Idle
  /\ Validation[public_key] = "ok"
  /\ last' = Returned("add", user_id, public_key, "store_error", 0,
                      RowState(user_id, public_key))
  /\ UNCHANGED <<subscribed_keys, active_keys, next_uuid, task, acked>>

\* add_public_key, the upsert succeeds; the cache insert is still to come.
AddStoreOk(p, user_id, public_key, subscription_type) ==
  /\ task[p] = Idle
  /\ Validation[public_key] = "ok"
  /\ next_uuid < MaxIds
  /\ LET sk == SubscribedKeyNew(user_id, public_key, subscription_type)
     IN  /\ subscribed_keys' = Upsert(subscribed_keys, sk)
         /\ task' = [task EXCEPT ![p] =
                       [op |-> "add", user_id |-> user_id,
                        public_key |-> public_key, id |-> sk.id,
                        pre |-> RowState(user_id, public_key), rows |-> {}]]
  /\ next_uuid' = next_uuid + 1
  /\ UNCHANGED <<active_keys, last, acked>>

\* A Remove of the key has executed its UPDATE and not yet returned.
RemoveInFlight(public_key) ==
  \E q \in Tasks : task[q].op = "remove" /\ task[q].public_key = public_key

\* A task holds a read guard of active_keys: a writer's write().await does
\* not return before the guard is dropped.  get_active_public_keys and
\* is_key_monitored take the guard and drop it within one statement
\* (registry.rs:102-105, 155-158), with no await point in between.
ReadGuardHeld == \E q \in Tasks : task[q].op = "snapshot"

\* Mutant: the call returns without inserting the key into the cache.
AddCacheInsert_Skip(p) ==
  /\ task[p].op = "add"
  /\ last' = Returned("add", task[p].user_id, task[p].public_key, "ok",
                      task[p].id, task[p].pre)
  /\ task' = [task EXCEPT ![p] = Idle]
  /\ UNCHANGED <<subscribed_keys, active_keys, next_uuid, acked>>

\* add_public_key, lines 65-72: insert into the cache, return the
\* SubscribedKey built before the upsert.
AddCacheInsert(p) ==
  /\ task[p].op = "add"
  /\ ~ReadGuardHeld
  /\ active_keys' = active_keys \cup {task[p].public_key}
  /\ last' = Returned("add", task[p].user_id, task[p].public_key, "ok",
                      task[p].id, task[p].pre)
  /\ acked' = IF observing = "acks" /\ ~RemoveInFlight(task[p].public_key)
              THEN acked \cup {task[p].public_key}
              ELSE acked
  /\ task' = [task EXCEPT ![p] = Idle]
  /\ UNCHANGED <<subscribed_keys, next_uuid>>

\* The first step of add_public_key for one request.
add_public_key(p, user_id, public_key, subscription_type) ==
  \/ AddInvalid(p, user_id, public_key, subscription_type)
  \/ AddStoreFail(p, user_id, public_key, subscription_type)
  \/ AddStoreOk(p, user_id, public_key, subscription_type)

\* remove_public_key, the UPDATE fails.
RemoveStoreFail(p, user_id, public_key) ==
  /\ task[p] = Idle
  /\ last' = Returned("remove", user_id, public_key, "store_error", 0,
                      RowState(user_id, public_key))
  /\ acked' = acked \ {public_key}
  /\ UNCHANGED <<subscribed_keys, active_keys, next_uuid, task>>

\* remove_public_key, the UPDATE succeeds: removed = rows_affected > 0.
RemoveStoreOk(p, user_id, public_key) ==
  /\ task[p] = Idle
  /\ subscribed_keys' = Deactivate(subscribed_keys, user_id, public_key)
  /\ acked' = acked \ {public_key}
  /\ IF RowsAffected(subscribed_keys, user_id, public_key) > 0
     THEN /\ task' = [task EXCEPT ![p] =
                        [op |-> "remove", user_id |-> user_id,
                         public_key |-> public_key, id |-> 0,
                         pre |-> RowState(user_id, public_key), rows |-> {}]]
          /\ UNCHANGED last
     ELSE /\ last' = Returned("remove", user_id, public_key, "false", 0,
                              RowState(user_id, public_key))
          /\ UNCHANGED task
  /\ UNCHANGED <<active_keys, next_uuid>>

\* remove_public_key, lines 89-93: drop the key from the cache, return true.
RemoveCacheDelete(p) ==
  /\ task[p].op = "remove"
  /\ ~ReadGuardHeld
  /\ active_keys' = active_keys \ {task[p].public_key}
  /\ last' = Returned("remove", task[p].user_id, task[p].public_key, "true",
                      0, task[p].pre)
  /\ task' = [task EXCEPT ![p] = Idle]
  /\ UNCHANGED <<subscribed_keys, next_uuid, acked>>

\* The first step of remove_public_key for one request.
remove_public_key(p, user_id, public_key) ==
  \/ RemoveStoreFail(p, user_id, public_key)
  \/ RemoveStoreOk(p, user_id, public_key)

\* refresh_cache, the SELECT fails.
RefreshFetchFail(p) ==
  /\ task[p] = Idle
  /\ last' = Returned("refresh", "", NoKey, "store_error", 0, "")
  /\ UNCHANGED <<subscribed_keys, active_keys, next_uuid, task, acked>>

\* refresh_cache, the SELECT succeeds: the rows are held until the write
\* lock is taken.
RefreshFetchOk(p) ==
  /\ task[p] = Idle
  /\ task' = [task EXCEPT ![p] =
                [op |-> "refresh", user_id |-> "", public_key |-> NoKey,
                 id |-> 0, pre |-> "",
                 rows |-> SelectActiveKeys(subscribed_keys)]]
  /\ UNCHANGED <<subscribed_keys, active_keys, next_uuid, last, acked>>

\* Mutant: the cache is emptied in one step and refilled in a later one, the
\* write lock released in between.
RefreshCacheReplace_ClearThenFill(p) ==
  /\ task[p].op = "refresh"
  /\ ~ReadGuardHeld
  /\ IF active_keys # {}
     THEN /\ active_keys' = {}
          /\ UNCHANGED <<last, task>>
     ELSE /\ active_keys' = task[p].rows
          /\ last' = Returned("refresh", "", NoKey, "ok", 0, "stale")
          /\ task' = [task EXCEPT ![p] = Idle]
  /\ UNCHANGED <<subscribed_keys, next_uuid, acked>>

\* refresh_cache, lines 131-139: the write guard is taken, the set is
\* cleared and refilled with no await point, and the guard is dropped on
\* return: one step.
RefreshCacheReplace(p) ==
  /\ task[p].op = "refresh"
  /\ ~ReadGuardHeld
  /\ active_keys' = task[p].rows
  /\ last' = Returned("refresh", "", NoKey, "ok", 0,
                      IF active_keys = task[p].rows THEN "same" ELSE "stale")
  /\ task' = [task EXCEPT ![p] = Idle]
  /\ UNCHANGED <<subscribed_keys, next_uuid, acked>>

\* The first step of refresh_cache.
refresh_cache(p) ==
  \/ RefreshFetchFail(p)
  \/ RefreshFetchOk(p)

\* ------------------------------------------------------------------ stream
\* The text of every notification key, computed once
\* (subscriber.rs:201, bs58::encode(&account.pubkey).into_string()).
EncodedPubkey == [b \in AccountPubkeys |-> Str(bs58_encode(b))]

\* SubscribeUpdate.update_oneof as the stream delivers it.  `present` is
\* whether the inner account / transaction is Some; `accounts` are the
\* account keys of a transaction.
SubscribeUpdates ==
  {[kind |-> "account", present |-> FALSE, pubkey |-> <<>>, lamports |-> 0,
    accounts |-> {}, slot |-> s] : s \in Slots}
  \cup {[kind |-> "account", present |-> TRUE, pubkey |-> b, lamports |-> l,
         accounts |-> {}, slot |-> s] :
          b \in AccountPubkeys, l \in Lamports, s \in Slots}
  \cup {[kind |-> "transaction", present |-> FALSE, pubkey |-> <<>>,
         lamports |-> 0, accounts |-> {}, slot |-> s] : s \in Slots}
  \cup {[kind |-> "transaction", present |-> TRUE, pubkey |-> <<>>,
         lamports |-> 0, accounts |-> a, slot |-> s] :
          a \in SUBSET {KeyA, KeyLead1}, s \in Slots}
  \cup {[kind |-> k, present |-> FALSE, pubkey |-> <<>>, lamports |-> 0,
         accounts |-> {}, slot |-> s] : k \in {"ping", "other", "empty"},
                                        s \in Slots}

\* subscriber.rs:222
NativeSolMint == "11111111111111111111111111111112"

\* BalanceUpdate::new: change_amount = new_balance - old_balance.
BalanceUpdateNew(user_id, public_key, mint, old, new, change_type, sig, slot) ==
  [id |-> next_uuid + 1, user_id |-> user_id, public_key |-> public_key,
   mint_address |-> mint, old_balance |-> old, new_balance |-> new,
   change_amount |-> new - old, change_type |-> change_type,
   transaction_signature |-> sig, slot |-> slot]

\* The record of a handled message, kept in `last_msg` when observing.
Handled(update, pubkey, monitored) ==
  IF observing \in {"none", "session"}
  THEN [kind |-> update.kind, present |-> update.present, pubkey |-> pubkey,
        lamports |-> update.lamports, accounts |-> update.accounts,
        monitored |-> monitored, balance_len |-> Len(balance_tx),
        transaction_len |-> Len(transaction_tx)]
  ELSE last_msg

\* process_account_update.  A BalanceUpdate is built, sent and stored only
\* when the key is monitored and get_key_subscription finds a subscription;
\* db_ok is the outcome of store_balance_update's INSERT.
process_account_update(update, db_ok) ==
  LET pubkey == IF update.present THEN EncodedPubkey[update.pubkey] ELSE NoKey
      monitored == update.present /\ is_key_monitored(pubkey)
      subscription == get_key_subscription(pubkey)
      balance_update ==
        BalanceUpdateNew(subscription.user_id, pubkey, NativeSolMint, 0,
                         update.lamports, "Transfer", "None", update.slot)
  IN  /\ update.kind = "account"
      /\ last_msg' = Handled(update, pubkey, monitored)
      /\ IF monitored /\ subscription.found
         THEN /\ balance_tx' = Append(balance_tx, balance_update)
              /\ next_uuid' = next_uuid + 1
              /\ balance_updates' =
                   IF db_ok THEN balance_updates \cup {balance_update}
                   ELSE balance_updates
         ELSE UNCHANGED <<balance_tx, next_uuid, balance_updates>>
      /\ UNCHANGED <<subscribed_keys, active_keys, task, last, acked,
                     transaction_tx>>

\* process_transaction_update: the signature and the meta are only logged.
process_transaction_update(update) ==
  /\ update.kind = "transaction"
  /\ last_msg' = Handled(update, NoKey,
                         update.present
                         /\ \E k \in update.accounts : is_key_monitored(k))
  /\ UNCHANGED <<registry_vars, balance_tx, transaction_tx, balance_updates>>

\* process_message, the Ping / other / None arms: nothing but a debug log.
process_other(update) ==
  /\ update.kind \in {"ping", "other", "empty"}
  /\ last_msg' = Handled(update, NoKey, FALSE)
  /\ UNCHANGED <<registry_vars, balance_tx, transaction_tx, balance_updates>>

\* process_message: dispatch on update_oneof.
process_message(message, db_ok) ==
  \/ process_account_update(message, db_ok)
  \/ process_transaction_update(message)
  \/ process_other(message)

\* -------------------------------------------------------------- subscriber
\* No SubscribeRequest has been built.
NoRequest == [accounts |-> <<>>, transactions |-> <<>>]

\* The Vec that get_active_public_keys collects from the HashSet: the keys
\* of the set, each once, in an order the hasher decides.
Orderings(S) ==
  {q \in [1..Cardinality(S) -> S] : \A k \in S : \E i \in 1..Len(q) : q[i] = k}

\* Mutant: the transaction filter is built without the keys.
SubscribeRequestNew_NoInclude(public_keys) ==
  [accounts |->
     [i \in 1..Len(public_keys) |->
        [account |-> <<public_keys[i]>>, owner |-> <<>>, filters |-> <<>>]],
   transactions |->
     << [vote |-> FALSE, failed |-> FALSE, account_include |-> <<>>,
         account_exclude |-> <<>>, account_required |-> <<>>] >>]

\* connect_and_subscribe, lines 96-138: entry i of `accounts` is the filter
\* named account_(i-1); `transactions` holds the one filter "transactions".
SubscribeRequestNew(public_keys) ==
  [accounts |->
     [i \in 1..Len(public_keys) |->
        [account |-> <<public_keys[i]>>, owner |-> <<>>, filters |-> <<>>]],
   transactions |->
     << [vote |-> FALSE, failed |-> FALSE, account_include |-> public_keys,
         account_exclude |-> <<>>, account_required |-> <<>>] >>]

RECURSIVE Pow(_, _)
Pow(b, n) == IF n = 0 THEN 1 ELSE b * Pow(b, n - 1)

Min(a, b) == IF a < b THEN a ELSE b

\* Mutant: the exponent is not capped.
backoff_duration_Uncapped(attempts) == Pow(BACKOFF_BASE, attempts)

\* Duration::from_secs(2_u64.pow(reconnect_attempts.min(6)))
backoff_duration(attempts) == Pow(BACKOFF_BASE, Min(attempts, BACKOFF_EXP_CAP))

\* Mutant: the counter is kept when connect_and_subscribe returns Ok.
OnOk_NoReset(how) ==
  /\ reconnect_attempts' = reconnect_attempts
  /\ pc' = "connect"
  /\ client' = FALSE
  /\ subscribe_request' = NoRequest
  /\ sleeping' = 0
  /\ slept' = <<>>
  /\ outcome' = how

\* start, the Ok(_) arm: the counter is reset and the loop calls
\* connect_and_subscribe again at once.  The client and the request are
\* locals of connect_and_subscribe and are dropped when it returns.
OnOk(how) ==
  /\ reconnect_attempts' = 0
  /\ pc' = "connect"
  /\ client' = FALSE
  /\ subscribe_request' = NoRequest
  /\ sleeping' = 0
  /\ slept' = <<>>
  /\ outcome' = how

\* Mutant: the loop gives up only after one more failure.
OnErr_OneMore(how) ==
  LET attempts == reconnect_attempts + 1
  IN  /\ reconnect_attempts' = attempts
      /\ client' = FALSE
      /\ subscribe_request' = NoRequest
      /\ outcome' = how
      /\ IF attempts > MAX_RECONNECT_ATTEMPTS
         THEN /\ pc' = "terminated"
              /\ UNCHANGED <<sleeping, slept>>
         ELSE /\ pc' = "backoff"
              /\ sleeping' = backoff_duration(attempts)
              /\ slept' = Append(slept, backoff_duration(attempts))

\* start, the Err(e) arm: count, give up at the maximum, else sleep.
OnErr(how) ==
  LET attempts == reconnect_attempts + 1
  IN  /\ reconnect_attempts' = attempts
      /\ client' = FALSE
      /\ subscribe_request' = NoRequest
      /\ outcome' = how
      /\ IF attempts >= MAX_RECONNECT_ATTEMPTS
         THEN /\ pc' = "terminated"
              /\ UNCHANGED <<sleeping, slept>>
         ELSE /\ pc' = "backoff"
              /\ sleeping' = backoff_duration(attempts)
              /\ slept' = Append(slept, backoff_duration(attempts))

\* What a step of the connection loop leaves alone.
LoopFrame ==
  UNCHANGED <<registry_vars, stream_vars, observing, service_vars,
              processor_vars>>

\* GeyserGrpcClient::build_from_shared(..).connect().await? fails.
ConnectFail ==
  /\ pc = "connect"
  /\ received' = FALSE
  /\ OnErr("connect_err")
  /\ LoopFrame

\* The client is connected (line 84).
ConnectOk ==
  /\ pc = "connect"
  /\ pc' = "snapshot"
  /\ client' = TRUE
  /\ received' = FALSE
  /\ UNCHANGED <<reconnect_attempts, subscribe_request, sleeping, slept,
                 outcome>>
  /\ LoopFrame

\* Lines 87-90: no key to monitor, sleep 30 seconds.
SnapshotEmpty ==
  /\ pc = "snapshot"
  /\ get_active_public_keys = {}
  /\ pc' = "idle_wait"
  /\ sleeping' = IDLE_SECS
  /\ UNCHANGED <<reconnect_attempts, client, subscribe_request, slept,
                 received, outcome>>
  /\ LoopFrame

\* Mutant: the snapshot is a view of the cache behind its read guard, kept
\* for as long as the request built from it.
SnapshotKeys_HoldsGuard(public_keys) ==
  /\ pc = "snapshot"
  /\ public_keys \in Orderings(get_active_public_keys)
  /\ public_keys # <<>>
  /\ pc' = "subscribe"
  /\ subscribe_request' = SubscribeRequestNew(public_keys)
  /\ task' = [task EXCEPT ![StreamTask] =
                [op |-> "snapshot", user_id |-> "", public_key |-> NoKey,
                 id |-> 0, pre |-> "", rows |-> {}]]
  /\ UNCHANGED <<reconnect_attempts, client, sleeping, slept, received,
                 outcome>>
  /\ UNCHANGED <<subscribed_keys, active_keys, next_uuid, last, acked>>
  /\ UNCHANGED <<stream_vars, observing, service_vars, processor_vars>>

\* Lines 87-138: the request is built from the keys read at line 87, a
\* Vec<String> of clones; the read guard is dropped when
\* get_active_public_keys returns, so the stream task has no registry call
\* in flight afterwards.
SnapshotKeys(public_keys) ==
  /\ pc = "snapshot"
  /\ public_keys \in Orderings(get_active_public_keys)
  /\ public_keys # <<>>
  /\ pc' = "subscribe"
  /\ subscribe_request' = SubscribeRequestNew(public_keys)
  /\ task' = [task EXCEPT ![StreamTask] = Idle]
  /\ UNCHANGED <<reconnect_attempts, client, sleeping, slept, received,
                 outcome>>
  /\ UNCHANGED <<subscribed_keys, active_keys, next_uuid, last, acked>>
  /\ UNCHANGED <<stream_vars, observing, service_vars, processor_vars>>

\* Line 91: the idle sleep is over, connect_and_subscribe returns Ok(()).
IdleWake ==
  /\ pc = "idle_wait"
  /\ OnOk("idle")
  /\ UNCHANGED received
  /\ LoopFrame

\* client.subscribe_once(subscribe_request).await? fails.
SubscribeFail ==
  /\ pc = "subscribe"
  /\ OnErr("subscribe_err")
  /\ UNCHANGED received
  /\ LoopFrame

\* Line 143: the subscription is active.
SubscribeOk ==
  /\ pc = "subscribe"
  /\ pc' = "streaming"
  /\ UNCHANGED subscriber_rest
  /\ LoopFrame

\* Mutant: the message's outcome is returned with `?`, and a message that
\* cannot be used ends the session like a stream error.
StreamMessage_Propagate ==
  /\ pc = "streaming"
  /\ received' = TRUE
  /\ IF last_msg'.present
     THEN /\ pc' = "handled"
          /\ UNCHANGED <<reconnect_attempts, client, subscribe_request,
                         sleeping, slept, outcome>>
     ELSE OnErr("process_err")
  /\ UNCHANGED <<observing, service_vars, processor_vars>>

\* Lines 146-157: stream.next() yields Ok(msg) and process_message runs; its
\* error, if any, is only logged.
StreamMessage ==
  /\ pc = "streaming"
  /\ pc' = "handled"
  /\ received' = TRUE
  /\ UNCHANGED <<reconnect_attempts, client, subscribe_request, sleeping,
                 slept, outcome, observing, service_vars, processor_vars>>

\* Lines 153-156: stream.next() yields Err(e).
StreamError ==
  /\ pc = "streaming"
  /\ OnErr("stream_err")
  /\ UNCHANGED received
  /\ LoopFrame

\* Line 167: stream.next() yields None, connect_and_subscribe returns Ok(()).
StreamEnd ==
  /\ pc = "streaming"
  /\ OnOk(IF received THEN "session_ok" ELSE "stream_closed")
  /\ UNCHANGED received
  /\ LoopFrame

\* Line 160: rand::random::<f64>() >= 0.001, no refresh after this message.
NoRefresh ==
  /\ pc = "handled"
  /\ task[StreamTask] = Idle
  /\ pc' = "streaming"
  /\ UNCHANGED subscriber_rest
  /\ LoopFrame

\* Lines 160-163: refresh_cache is awaited inside the read loop; its error
\* is only logged.
StreamRefreshFetchFail ==
  /\ pc = "handled"
  /\ RefreshFetchFail(StreamTask)
  /\ pc' = "streaming"
  /\ UNCHANGED <<subscriber_rest, stream_vars, observing, service_vars,
                 processor_vars>>

StreamRefreshFetchOk ==
  /\ pc = "handled"
  /\ RefreshFetchOk(StreamTask)
  /\ UNCHANGED <<subscriber_vars, stream_vars, observing, service_vars,
                 processor_vars>>

StreamRefreshCacheReplace ==
  /\ pc = "handled"
  /\ RefreshCacheReplace(StreamTask)
  /\ pc' = "streaming"
  /\ UNCHANGED <<subscriber_rest, stream_vars, observing, service_vars,
                 processor_vars>>

\* Line 71: the backoff sleep is over, the loop connects again.
BackoffWake ==
  /\ pc = "backoff"
  /\ pc' = "connect"
  /\ sleeping' = 0
  /\ UNCHANGED <<reconnect_attempts, client, subscribe_request, slept,
                 received, outcome>>
  /\ LoopFrame

\* ---------------------------------------------------------------- processors
\* The processor waits in recv() and holds no event.
NoEvent == [id |-> 0]
Receiving == [pc |-> "recv", event |-> NoEvent]

\* How the POST of an event to the backend ends: a 2xx response, another
\* status (logged, Ok(()) is returned), or an error of send() (returned
\* with `?` and logged by the processor loop).
PostOutcomes == {"success", "status_error", "send_error"}

\* start_balance_processor, line 122: recv() yields the oldest event.
BalanceRecv ==
  /\ balance_proc.pc = "recv"
  /\ balance_tx # <<>>
  /\ balance_proc' = [pc |-> "post", event |-> Head(balance_tx)]
  /\ balance_tx' = Tail(balance_tx)
  /\ UNCHANGED <<registry_vars, observing, service_vars,
                 transaction_tx, balance_updates,
                 last_msg, subscriber_vars, transaction_proc, notified,
                 senders_open>>

\* Mutant: a failed send ends the processor (the error is returned with `?`
\* from the loop).
process_balance_update_Propagate(post) ==
  /\ balance_proc.pc = "post"
  /\ notified' = notified \cup
       {[kind |-> "balance", id |-> balance_proc.event.id, outcome |-> post]}
  /\ balance_proc' = IF post = "send_error"
                     THEN [pc |-> "stopped", event |-> NoEvent]
                     ELSE Receiving
  /\ UNCHANGED <<registry_vars, observing, service_vars,
                 stream_vars, subscriber_vars,
                 transaction_proc, senders_open>>

\* process_balance_update and lines 123-125: the event is POSTed to
\* /api/balance/update; whatever the outcome, the loop goes on to recv().
process_balance_update(post) ==
  /\ balance_proc.pc = "post"
  /\ notified' = notified \cup
       {[kind |-> "balance", id |-> balance_proc.event.id, outcome |-> post]}
  /\ balance_proc' = Receiving
  /\ UNCHANGED <<registry_vars, observing, service_vars,
                 stream_vars, subscriber_vars,
                 transaction_proc, senders_open>>

\* recv() yields None: every sender is dropped and the queue is empty.  The
\* loop ends and start_balance_processor returns Ok(()).
BalanceStop ==
  /\ balance_proc.pc = "recv"
  /\ balance_tx = <<>>
  /\ ~senders_open
  /\ balance_proc' = [pc |-> "stopped", event |-> NoEvent]
  /\ UNCHANGED <<registry_vars, observing, service_vars,
                 stream_vars, subscriber_vars,
                 transaction_proc, notified, senders_open>>

\* start_transaction_processor, line 137.
TransactionRecv ==
  /\ transaction_proc.pc = "recv"
  /\ transaction_tx # <<>>
  /\ transaction_proc' = [pc |-> "post", event |-> Head(transaction_tx)]
  /\ transaction_tx' = Tail(transaction_tx)
  /\ UNCHANGED <<registry_vars, observing, service_vars,
                 balance_tx, balance_updates,
                 last_msg, subscriber_vars, balance_proc, notified,
                 senders_open>>

\* process_transaction_event and lines 138-140.
process_transaction_event(post) ==
  /\ transaction_proc.pc = "post"
  /\ notified' = notified \cup
       {[kind |-> "transaction", id |-> transaction_proc.event.id,
         outcome |-> post]}
  /\ transaction_proc' = Receiving
  /\ UNCHANGED <<registry_vars, observing, service_vars,
                 stream_vars, subscriber_vars,
                 balance_proc, senders_open>>

TransactionStop ==
  /\ transaction_proc.pc = "recv"
  /\ transaction_tx = <<>>
  /\ ~senders_open
  /\ transaction_proc' = [pc |-> "stopped", event |-> NoEvent]
  /\ UNCHANGED <<registry_vars, observing, service_vars,
                 stream_vars, subscriber_vars,
                 balance_proc, notified, senders_open>>

\* The last clone of the YellowstoneSubscriber is dropped, and with it both
\* senders (subscriber.rs:22-24): the channels are closed.
DropSenders ==
  /\ senders_open
  /\ senders_open' = FALSE
  /\ UNCHANGED <<registry_vars, observing, service_vars,
                 stream_vars, subscriber_vars,
                 balance_proc, transaction_proc, notified>>

\* unbounded_channel() at subscriber.rs:33-34: both queues are empty, and
\* so is the table balance_updates.
StartQueues ==
  /\ balance_tx = <<>>
  /\ transaction_tx = <<>>
  /\ balance_updates = {}

\* PublicKeyRegistry::new on an empty table: the cache is loaded from it;
\* the subscriber and the processors are at the top of their loops.
StartTasks ==
  /\ subscribed_keys = {}
  /\ active_keys = SelectActiveKeys({})
  /\ next_uuid = 0
  /\ task = [p \in Tasks |-> Idle]
  /\ last = NoCall
  /\ acked = {}
  /\ last_msg = NoMsg
  /\ balance_proc = Receiving
  /\ transaction_proc = Receiving
  /\ notified = {}
  /\ senders_open = TRUE
  /\ pc = "connect"
  /\ reconnect_attempts = 0
  /\ client = FALSE
  /\ subscribe_request = NoRequest
  /\ sleeping = 0
  /\ slept = <<>>
  /\ received = FALSE
  /\ outcome = "none"
  /\ keygen = NoKeygen
  /\ balances = {}
  /\ ledger_last = NoLedgerCall

Start == StartTasks /\ StartQueues

Init == Start /\ observing = "acks"
SeqInit == Start /\ observing = "calls"
StreamInit == Start /\ observing = "none"

\* No registry call is in flight.
Quiescent == \A p \in Tasks : task[p] = Idle

\* What a registry step leaves alone.
Frame ==
  UNCHANGED <<observing, service_vars,
              stream_vars, subscriber_vars, processor_vars>>

\* The steps of the registry calls the HTTP handlers issue (routes.rs): Add,
\* Remove and Refresh.  With `sequential`, a call begins only when no call
\* is in flight.
RegistryNext(keys, sequential) ==
  \/ \E p \in Handlers, u \in Users, k \in keys, t \in SubscriptionTypes :
       (sequential => Quiescent) /\ AddInvalid(p, u, k, t) /\ Frame
  \/ \E p \in Handlers, u \in Users, k \in keys, t \in SubscriptionTypes :
       (sequential => Quiescent) /\ AddStoreFail(p, u, k, t) /\ Frame
  \/ \E p \in Handlers, u \in Users, k \in keys, t \in SubscriptionTypes :
       (sequential => Quiescent) /\ AddStoreOk(p, u, k, t) /\ Frame
  \/ \E p \in Handlers : AddCacheInsert(p) /\ Frame
  \/ \E p \in Handlers, u \in Users, k \in keys \cap RemoveKeys :
       (sequential => Quiescent) /\ RemoveStoreFail(p, u, k) /\ Frame
  \/ \E p \in Handlers, u \in Users, k \in keys \cap RemoveKeys :
       (sequential => Quiescent) /\ RemoveStoreOk(p, u, k) /\ Frame
  \/ \E p \in Handlers : RemoveCacheDelete(p) /\ Frame
  \/ \E p \in Handlers :
       (sequential => Quiescent) /\ RefreshFetchFail(p) /\ Frame
  \/ \E p \in Handlers :
       (sequential => Quiescent) /\ RefreshFetchOk(p) /\ Frame
  \/ \E p \in Handlers : RefreshCacheReplace(p) /\ Frame

\* Interleaved: the handlers run their calls concurrently.
Next == RegistryNext(ConcurrentKeys, FALSE)

Spec == Init /\ [][Next]_vars

\* Interleaved, every call that returns recorded.
CallsSpec == SeqInit /\ [][Next]_vars

\* One call at a time.
SeqNext == RegistryNext(PublicKeyInputs, TRUE)

SeqSpec == SeqInit /\ [][SeqNext]_vars

\* One call at a time, and only Add and Remove calls whose statement the
\* store executes.
AddRemoveNext ==
  \/ \E p \in Handlers, u \in Users, k \in PublicKeyInputs,
        t \in SubscriptionTypes :
       Quiescent /\ AddStoreOk(p, u, k, t) /\ Frame
  \/ \E p \in Handlers : AddCacheInsert(p) /\ Frame
  \/ \E p \in Handlers, u \in Users, k \in RemoveKeys :
       Quiescent /\ RemoveStoreOk(p, u, k) /\ Frame
  \/ \E p \in Handlers : RemoveCacheDelete(p) /\ Frame

AddRemoveSpec == SeqInit /\ [][AddRemoveNext]_vars

\* The stream loop of a connection whose transport does not fail, while
\* registry calls run one at a time.
StreamNext ==
  \/ RegistryNext(ConcurrentKeys, TRUE)
  \/ ConnectOk
  \/ SnapshotEmpty
  \/ \E public_keys \in Orderings(active_keys) : SnapshotKeys(public_keys)
  \/ IdleWake
  \/ SubscribeOk
  \/ StreamEnd
  \/ \E m \in SubscribeUpdates, db_ok \in BOOLEAN :
       process_account_update(m, db_ok) /\ StreamMessage
  \/ \E m \in SubscribeUpdates :
       process_transaction_update(m) /\ StreamMessage
  \/ \E m \in SubscribeUpdates :
       process_other(m) /\ StreamMessage
  \/ NoRefresh
  \/ Quiescent /\ StreamRefreshFetchFail
  \/ Quiescent /\ StreamRefreshFetchOk
  \/ StreamRefreshCacheReplace

StreamSpec == StreamInit /\ [][StreamNext]_vars

\* The requests served while the connection loop runs: one handler adds and
\* removes two keys of one user, which is enough to fill, change and empty
\* the watch-list.
SubscriberKeys == {KeyA, KeyLead1}
SubscriberUsers == {"u1"}
SubscriberHandler == "http1"

SubscriberInit == Start /\ observing = "subscriber"

\* The connection loop with every outcome of the transport, the stream
\* messages, and Add and Remove calls one at a time.
SubscriberNext ==
  \/ ConnectFail
  \/ ConnectOk
  \/ SnapshotEmpty
  \/ \E public_keys \in Orderings(active_keys) : SnapshotKeys(public_keys)
  \/ IdleWake
  \/ SubscribeFail
  \/ SubscribeOk
  \/ StreamError
  \/ StreamEnd
  \/ BackoffWake
  \/ \E m \in SubscribeUpdates, db_ok \in BOOLEAN :
       process_account_update(m, db_ok) /\ StreamMessage
  \/ \E m \in SubscribeUpdates :
       process_transaction_update(m) /\ StreamMessage
  \/ \E m \in SubscribeUpdates :
       process_other(m) /\ StreamMessage
  \/ NoRefresh
  \/ Quiescent /\ StreamRefreshFetchFail
  \/ Quiescent /\ StreamRefreshFetchOk
  \/ StreamRefreshCacheReplace
  \/ \E u \in SubscriberUsers, k \in SubscriberKeys, t \in SubscriptionTypes :
       Quiescent /\ AddStoreOk(SubscriberHandler, u, k, t) /\ Frame
  \/ AddCacheInsert(SubscriberHandler) /\ Frame
  \/ \E u \in SubscriberUsers, k \in SubscriberKeys :
       Quiescent /\ RemoveStoreOk(SubscriberHandler, u, k) /\ Frame
  \/ RemoveCacheDelete(SubscriberHandler) /\ Frame

SubscriberSpec == SubscriberInit /\ [][SubscriberNext]_vars

\* Events the processors are given.  A queued BalanceUpdate is one that
\* process_account_update sent at subscriber.rs:231; a TransactionEvent
\* carries an id (models.rs:95-109).
QueuedBalanceUpdates ==
  {[id |-> i, user_id |-> "u1", public_key |-> KeyA,
    mint_address |-> NativeSolMint, old_balance |-> 0, new_balance |-> i,
    change_amount |-> i, change_type |-> "Transfer",
    transaction_signature |-> "None", slot |-> 7] : i \in 1..2}
QueuedTransactionEvents == {[id |-> i] : i \in 3..4}

\* The queues with no event, one event or two distinct events, oldest first.
QueuesOf(events) ==
  {q \in {<<>>} \cup {<<e>> : e \in events}
                \cup {<<e, f>> : e \in events, f \in events} :
     Len(q) = 2 => q[1] # q[2]}

\* The processors as main.rs runs them, on receivers that already hold
\* events: the queue contents are the processors' input.  Each queued
\* balance event is in the table balance_updates or not, as its INSERT at
\* subscriber.rs:236 runs after the send and can fail.
FanoutInit ==
  /\ StartTasks
  /\ observing = "fanout"
  /\ balance_tx \in QueuesOf(QueuedBalanceUpdates)
  /\ transaction_tx \in QueuesOf(QueuedTransactionEvents)
  /\ balance_updates \in
       SUBSET {balance_tx[i] : i \in 1..Len(balance_tx)}

FanoutNext ==
  \/ BalanceRecv
  \/ \E post \in PostOutcomes : process_balance_update(post)
  \/ BalanceStop
  \/ TransactionRecv
  \/ \E post \in PostOutcomes : process_transaction_event(post)
  \/ TransactionStop
  \/ DropSenders

FanoutSpec == FanoutInit /\ [][FanoutNext]_vars

\* The tokio scheduler runs every spawned task that can make a step, and
\* the POST is assumed to end, in success or in failure.
FanoutFairSpec ==
  /\ FanoutSpec
  /\ WF_vars(BalanceRecv)
  /\ WF_vars(\E post \in PostOutcomes : process_balance_update(post))
  /\ WF_vars(TransactionRecv)
  /\ WF_vars(\E post \in PostOutcomes : process_transaction_event(post))

\* An Add and a Remove of one owner's key issued by the two handlers at the
\* same time: each call's store statement and cache update are separate
\* steps (registry.rs:54-69, 79-93) and the steps of the two calls interleave.
\* No Refresh runs and no statement fails.
RaceNext ==
  \/ \E u \in SubscriberUsers, k \in SubscriberKeys, t \in SubscriptionTypes :
       AddStoreOk("http1", u, k, t) /\ Frame
  \/ AddCacheInsert("http1") /\ Frame
  \/ \E u \in SubscriberUsers, k \in SubscriberKeys :
       RemoveStoreOk("http2", u, k) /\ Frame
  \/ RemoveCacheDelete("http2") /\ Frame

RaceSpec == SeqInit /\ [][RaceNext]_vars

\* ------------------------------------------------------------------- bulk
\* POST /keys/bulk: the keys of one request, at most MaxBulk of them, and
\* for each key whether the store executes its upsert: the store fails for
\* no key or for one of them.
BulkKeys == {KeyA, KeyLead1, KeyShort}
BulkRequests == UNION {[1..n -> BulkKeys] : n \in 0..MaxBulk}
BulkStoreOutcomes(n) == {[i \in 1..n |-> i # f] : f \in 0..n}

\* add_public_key as bulk_add_keys awaits it, from validation to the cache
\* insert: the registry it leaves and Ok or the error it returns.
AddAwaited(reg, user_id, public_key, store_ok) ==
  IF Validation[public_key] # "ok"
  THEN [reg |-> reg, result |-> Validation[public_key]]
  ELSE IF ~store_ok
  THEN [reg |-> reg, result |-> "store_error"]
  ELSE LET sk == [SubscribedKeyNew(user_id, public_key, "account")
                    EXCEPT !.id = reg.uuid + 1]
       IN  [reg |-> [table |-> Upsert(reg.table, sk),
                     cache |-> reg.cache \cup {public_key},
                     uuid |-> reg.uuid + 1],
            result |-> "ok"]

\* Mutant: the keys after a failed one are skipped.
BulkStep_StopAtFailure(acc, user_id, public_key, store_ok) ==
  LET added == AddAwaited(acc.reg, user_id, public_key, store_ok)
  IN  IF acc.failed > 0 THEN acc
      ELSE IF added.result = "ok"
      THEN [acc EXCEPT !.reg = added.reg, !.successful = @ + 1]
      ELSE [acc EXCEPT !.failed = @ + 1,
                       !.errors = Append(@, [public_key |-> public_key,
                                             user_id |-> user_id,
                                             error |-> added.result])]

\* bulk_add_keys, the body of the loop (lines 189-199): Ok counts a success,
\* Err counts a failure and pushes its message.
BulkStep(acc, user_id, public_key, store_ok) ==
  LET added == AddAwaited(acc.reg, user_id, public_key, store_ok)
  IN  IF added.result = "ok"
      THEN [acc EXCEPT !.reg = added.reg, !.successful = @ + 1]
      ELSE [acc EXCEPT !.failed = @ + 1,
                       !.errors = Append(@, [public_key |-> public_key,
                                             user_id |-> user_id,
                                             error |-> added.result])]

\* bulk_add_keys, the loop from key i on.
RECURSIVE BulkLoop(_, _, _, _, _)
BulkLoop(acc, user_id, keys, store, i) ==
  IF i > Len(keys) THEN acc
  ELSE BulkLoop(BulkStep(acc, user_id, keys[i], store[i]),
                user_id, keys, store, i + 1)

\* bulk_add_keys with no other call in flight: the BulkOperationResult is
\* kept in `last`.
bulk_add_keys(p, user_id, keys, store) ==
  LET start == [reg |-> [table |-> subscribed_keys, cache |-> active_keys,
                         uuid |-> next_uuid],
                successful |-> 0, failed |-> 0, errors |-> <<>>]
      end == BulkLoop(start, user_id, keys, store, 1)
  IN  /\ Quiescent
      /\ end.reg.uuid <= MaxIds
      /\ subscribed_keys' = end.reg.table
      /\ active_keys' = end.reg.cache
      /\ next_uuid' = end.reg.uuid
      /\ last' = [op |-> "bulk", user_id |-> user_id, keys |-> keys,
                  store |-> store, successful |-> end.successful,
                  failed |-> end.failed, errors |-> end.errors]
      /\ UNCHANGED <<task, acked>>

BulkInit == Start /\ observing = "bulk"

\* Bulk requests and Remove calls of one user, one call at a time.
BulkNext ==
  \/ \E u \in SubscriberUsers, keys \in BulkRequests :
       \E store \in BulkStoreOutcomes(Len(keys)) :
         bulk_add_keys(SubscriberHandler, u, keys, store) /\ Frame
  \/ \E u \in SubscriberUsers, k \in BulkKeys :
       Quiescent /\ RemoveStoreOk(SubscriberHandler, u, k) /\ Frame
  \/ RemoveCacheDelete(SubscriberHandler) /\ Frame

BulkSpec == BulkInit /\ [][BulkNext]_vars

\* ----------------------------------------------------------------- routes
\* DELETE /keys (routes.rs:138-165): the response built from what
\* registry.remove_public_key returned.
RemoveResponse(result) ==
  CASE result = "true" ->
         [status |-> 200, success |-> TRUE, removed |-> "true", error |-> ""]
    [] result = "false" ->
         [status |-> 404, success |-> FALSE, removed |-> "",
          error |-> "PublicKeyNotFound"]
    [] OTHER ->
         [status |-> 500, success |-> FALSE, removed |-> "",
          error |-> "RemovePublicKeyError"]

\* The connection loop with every outcome of the transport and every
\* message, each handled message recorded, while one key is added.
SessionInit == Start /\ observing = "session"

SessionNext ==
  \/ ConnectFail
  \/ ConnectOk
  \/ SnapshotEmpty
  \/ \E public_keys \in Orderings(active_keys) : SnapshotKeys(public_keys)
  \/ IdleWake
  \/ SubscribeFail
  \/ SubscribeOk
  \/ StreamError
  \/ StreamEnd
  \/ BackoffWake
  \/ \E m \in SubscribeUpdates, db_ok \in BOOLEAN :
       process_account_update(m, db_ok) /\ StreamMessage
  \/ \E m \in SubscribeUpdates :
       process_transaction_update(m) /\ StreamMessage
  \/ \E m \in SubscribeUpdates :
       process_other(m) /\ StreamMessage
  \/ NoRefresh
  \/ Quiescent /\ StreamRefreshFetchFail
  \/ Quiescent /\ StreamRefreshFetchOk
  \/ StreamRefreshCacheReplace
  \/ \E u \in SubscriberUsers, t \in SubscriptionTypes :
       Quiescent /\ AddStoreOk(SubscriberHandler, u, KeyA, t) /\ Frame
  \/ AddCacheInsert(SubscriberHandler) /\ Frame

SessionSpec == SessionInit /\ [][SessionNext]_vars

\* --------------------------------------------------------------- shutdown
\* Mutant: the shutdown is noticed only between two sleeps.
Shutdown_AfterSleep ==
  /\ pc \notin {"stopped", "backoff", "idle_wait"}
  /\ pc' = "stopped"
  /\ client' = FALSE
  /\ task' = [p \in Tasks |-> Idle]
  /\ balance_proc' = [balance_proc EXCEPT !.pc = "stopped"]
  /\ transaction_proc' = [transaction_proc EXCEPT !.pc = "stopped"]
  /\ UNCHANGED <<subscribed_keys, active_keys, next_uuid, last, acked,
                 stream_vars, observing, service_vars, reconnect_attempts,
                 subscribe_request, sleeping, slept, received, outcome,
                 notified, senders_open>>

\* main.rs:102-112: ctrl_c (or the end of the server) completes the select,
\* main returns and the runtime is dropped.  Every spawned task is dropped
\* with it at the await it is suspended in, a sleep included: the
\* subscriber, the processors and the handlers take no further step.
Shutdown ==
  /\ pc # "stopped"
  /\ pc' = "stopped"
  /\ client' = FALSE
  /\ task' = [p \in Tasks |-> Idle]
  /\ balance_proc' = [balance_proc EXCEPT !.pc = "stopped"]
  /\ transaction_proc' = [transaction_proc EXCEPT !.pc = "stopped"]
  /\ UNCHANGED <<subscribed_keys, active_keys, next_uuid, last, acked,
                 stream_vars, observing, service_vars, reconnect_attempts,
                 subscribe_request, sleeping, slept, received, outcome,
                 notified, senders_open>>

ShutdownInit == Start /\ observing = "shutdown"

\* The connection loop and the handler's calls until the process is shut
\* down.
ShutdownNext ==
  \/ pc # "stopped" /\ SubscriberNext
  \/ Shutdown

ShutdownSpec == ShutdownInit /\ [][ShutdownNext]_vars

\* -------------------------------------------------------------------- mpc
\* Threshold and share count are u16; the calls are made with values up to
\* MaxShares.  The master secret is drawn at random (OsRng, Keypair::new).
ShareCounts == 0..MaxShares
Secrets == {"sk1", "sk2"}

\* Sha256 of the concatenated parts: equal digests for equal parts only.
Sha256(parts) == [sha256 |-> parts]
\* The public key of the keypair with this secret.
PublicOf(secret) == [public_of |-> secret]

\* Mutant: the range stops before total_shares.
ShareIndexes_Exclusive(total_shares) == 1..(total_shares - 1)

\* for i in 1..=total_shares
ShareIndexes(total_shares) == 1..total_shares

\* simple_mpc.rs:56-67: the share built for index i.
MPCKeyShareNew(i, secret, threshold, total_shares, user_id) ==
  [share_index |-> i, secret_share |-> Sha256(<<secret, i, user_id>>),
   public_key |-> PublicOf(secret), threshold |-> threshold,
   total_shares |-> total_shares]

\* MPCProtocol::generate_threshold_keys (simple_mpc.rs:38-73).
generate_threshold_keys(threshold, total_shares, user_id, secret) ==
  IF threshold > total_shares
  THEN [ok |-> FALSE, error |-> "InvalidSignature", shares |-> <<>>]
  ELSE [ok |-> TRUE, public_key |-> PublicOf(secret),
        shares |-> [i \in ShareIndexes(total_shares) |->
                      MPCKeyShareNew(i, secret, threshold, total_shares,
                                     user_id)]]

\* MPCCrypto::shamir_secret_share (crypto.rs:61-86): the share of index i is
\* the digest of the secret, i and the threshold.
shamir_secret_share(secret, threshold, total_shares) ==
  IF threshold > total_shares
  THEN [ok |-> FALSE,
        error |-> "Threshold cannot be greater than total shares",
        shares |-> <<>>]
  ELSE [ok |-> TRUE,
        shares |-> [i \in ShareIndexes(total_shares) |->
                      Sha256(<<secret, i, threshold>>)]]

\* What every step of the MPC service leaves alone.
MpcFrame ==
  UNCHANGED <<registry_vars, stream_vars, observing, subscriber_vars,
              processor_vars, balances, ledger_last>>

GenerateThresholdKeys(threshold, total_shares, user_id, secret) ==
  /\ keygen' = [fn |-> "generate_threshold_keys", threshold |-> threshold,
                total_shares |-> total_shares, user_id |-> user_id,
                returned |-> generate_threshold_keys(threshold, total_shares,
                                                     user_id, secret)]
  /\ MpcFrame

ShamirSecretShare(secret, threshold, total_shares) ==
  /\ keygen' = [fn |-> "shamir_secret_share", threshold |-> threshold,
                total_shares |-> total_shares, user_id |-> "",
                returned |-> shamir_secret_share(secret, threshold,
                                                 total_shares)]
  /\ MpcFrame

KeygenInit == Start /\ observing = "keygen"

KeygenNext ==
  \/ \E t \in ShareCounts, n \in ShareCounts, u \in Users, s \in Secrets :
       GenerateThresholdKeys(t, n, u, s)
  \/ \E t \in ShareCounts, n \in ShareCounts, s \in Secrets :
       ShamirSecretShare(s, t, n)

KeygenSpec == KeygenInit /\ [][KeygenNext]_vars

\* ----------------------------------------------------------------- ledger
\* The users and assets of the table balances, and the amounts requested.
LedgerUsers == {"u1", "u2"}
Assets == {"SOL", "USDC"}
Amounts == 0..MaxAmount

\* SELECT .. FROM balances WHERE user_id = $1 AND asset_id = $2,
\* fetch_optional on the pool: the committed row, if any.
get_balance(table, user_id, asset_id) ==
  LET hit == {r \in table : r.user_id = user_id /\ r.asset_id = asset_id}
  IN  IF hit = {} THEN [found |-> FALSE]
      ELSE [found |-> TRUE, row |-> CHOOSE r \in hit : TRUE]

\* UPDATE balances SET amount = $1 WHERE id = $3
UpdateAmount(table, id, amount) ==
  {IF r.id = id THEN [r EXCEPT !.amount = amount] ELSE r : r \in table}

\* INSERT INTO balances: a row with a fresh id.
BalanceNew(user_id, asset_id, amount) ==
  [id |-> <<user_id, asset_id>>, user_id |-> user_id, asset_id |-> asset_id,
   amount |-> amount]

\* What every step of the ledger store leaves alone.
LedgerFrame ==
  UNCHANGED <<registry_vars, stream_vars, observing, subscriber_vars,
              processor_vars, keygen>>

\* Store::create_or_update_balance (balance.rs:56-123): the amount is added
\* to the row of (user, asset), or the row is created with it.
create_or_update_balance(user_id, asset_id, amount) ==
  LET existing == get_balance(balances, user_id, asset_id)
      new_amount == IF existing.found THEN existing.row.amount + amount
                    ELSE amount
  IN  /\ new_amount <= MaxBalance
      /\ balances' = IF existing.found
                     THEN UpdateAmount(balances, existing.row.id, new_amount)
                     ELSE balances \cup {BalanceNew(user_id, asset_id, amount)}
      /\ ledger_last' = [op |-> "create_or_update", result |-> "ok"]
      /\ LedgerFrame

\* balance.rs:256: self.get_balance reads through the pool, on another
\* connection than the transaction's: it sees the committed rows, without
\* the sender's UPDATE of lines 245-253.
ReceiverRead(committed, in_tx, user_id, asset_id) ==
  get_balance(committed, user_id, asset_id)

\* Store::transfer_balance (balance.rs:225-324), called under the store
\* mutex of the route (routes/balance.rs:197).  failing names the
\* statement the database fails, if any; an early return drops the
\* transaction, which rolls it back.
transfer_balance(from_user_id, to_user_id, asset_id, amount, failing) ==
  LET sender_balance == get_balance(balances, from_user_id, asset_id)
      request == [from_user_id |-> from_user_id, to_user_id |-> to_user_id,
                  asset_id |-> asset_id, amount |-> amount]
  IN  IF failing = "begin"
      THEN /\ ledger_last' = [op |-> "transfer", request |-> request,
                              result |-> "DatabaseError"]
           /\ UNCHANGED balances
      ELSE IF ~sender_balance.found
              \/ sender_balance.row.amount < amount
      THEN /\ ledger_last' = [op |-> "transfer", request |-> request,
                              result |-> "InsufficientBalance"]
           /\ UNCHANGED balances
      ELSE IF failing # "none"
      THEN /\ ledger_last' = [op |-> "transfer", request |-> request,
                              result |-> "DatabaseError"]
           /\ UNCHANGED balances
      ELSE LET new_sender_amount == sender_balance.row.amount - amount
               after_sender == UpdateAmount(balances, sender_balance.row.id,
                                            new_sender_amount)
               receiver_balance ==
                 ReceiverRead(balances, after_sender, to_user_id, asset_id)
               new_receiver_amount ==
                 IF receiver_balance.found
                 THEN receiver_balance.row.amount + amount
                 ELSE amount
               after_receiver ==
                 IF receiver_balance.found
                 THEN UpdateAmount(after_sender, receiver_balance.row.id,
                                   new_receiver_amount)
                 ELSE after_sender
                        \cup {BalanceNew(to_user_id, asset_id, amount)}
           IN  /\ new_receiver_amount <= MaxBalance
               /\ balances' = after_receiver
               /\ ledger_last' =
                    [op |-> "transfer", request |-> request,
                     result |-> "ok",
                     sender_amount |-> new_sender_amount,
                     receiver_amount |-> new_receiver_amount]

\* The statement of transfer_balance that the database fails.
TransferFailures == {"none", "begin", "update_receiver", "commit"}

LedgerInit == Start /\ observing = "ledger"

\* Deposits and transfers, one call at a time.
LedgerNext ==
  \/ \E u \in LedgerUsers, a \in Assets, x \in Amounts :
       create_or_update_balance(u, a, x)
  \/ \E f \in LedgerUsers, t \in LedgerUsers, a \in Assets, x \in Amounts,
        failing \in TransferFailures :
       transfer_balance(f, t, a, x, failing) /\ LedgerFrame

LedgerSpec == LedgerInit /\ [][LedgerNext]_vars

\* ------------------------------------------------------------------ claims
\* The claims' own reading of a key's text, computed once per input.
AlphabetSet == {Alphabet[i] : i \in 1..Len(Alphabet)}

WellFormedInput ==
  [k \in PublicKeyInputs |->
     /\ Len(Chars(k)) = 44
     /\ \A i \in 1..Len(Chars(k)) : Chars(k)[i] \in AlphabetSet
     /\ Len(bs58_decode(Chars(k)).bytes) = 32]

InvalidKeyFormat == {"invalid_length", "invalid_base58", "invalid_decoded_length"}

\* Public keys with at least one row whose is_active is true.
KeysWithActiveRow == {r.public_key : r \in {x \in subscribed_keys : x.is_active = TRUE}}

\* C1: when Add of a well-formed key has returned success and no other
\* registry call has returned since, IsWatched of that key is true.
C1_AddThenIsWatched ==
  (last.op = "add" /\ last.result = "ok" /\ WellFormedInput[last.public_key])
    => is_key_monitored(last.public_key)

C1_Witness ==
  /\ Quiescent
  /\ last.op = "add" /\ last.result = "ok" /\ last.public_key = KeyLead1
  /\ is_key_monitored(KeyLead1)

\* C2: in every quiescent state reached by successful Add and Remove calls
\* issued one at a time, the cache equals the set of keys that have an
\* active row in the table.
C2_CacheEqualsActiveRows ==
  Quiescent => active_keys = KeysWithActiveRow

\* C3: a key whose Add has been acknowledged (no Remove of it in flight at
\* that moment, none issued since) is watched in every later state,
\* whatever Refresh runs meanwhile.
C3_AckedAddStaysWatched ==
  \A k \in acked : is_key_monitored(k)

\* C4: after a successful Refresh with no call in flight the cache is
\* exactly the keys with an active row, whatever it held before; a Refresh
\* that directly follows a successful Refresh leaves the cache as it is.
C4_RefreshLoadsActiveRows ==
  /\ [](   (Quiescent /\ last.op = "refresh" /\ last.result = "ok")
        => active_keys = KeysWithActiveRow)
  /\ [][   (   last.op = "refresh" /\ last.result = "ok"
            /\ \E p \in Tasks : RefreshCacheReplace(p))
        => active_keys' = active_keys]_vars

C4_Witness ==
  /\ Quiescent
  /\ last.op = "refresh" /\ last.result = "ok" /\ last.pre = "stale"
  /\ active_keys # {}

\* C5: a step in which the store statement of Add, Remove or Refresh fails
\* returns a store error and leaves the cache as it was; the cache changes
\* only in the step of a call whose statement the store has executed.
C5_StoreFailureKeepsCache ==
  [][ /\ \A p \in Tasks :
           (   (\E u \in Users, k \in PublicKeyInputs, t \in SubscriptionTypes :
                  AddStoreFail(p, u, k, t))
            \/ (\E u \in Users, k \in PublicKeyInputs : RemoveStoreFail(p, u, k))
            \/ RefreshFetchFail(p))
           => /\ last'.result = "store_error"
              /\ active_keys' = active_keys
              /\ task'[p] = Idle
      /\ (active_keys' # active_keys)
           => \E p \in Tasks : task[p].op \in {"add", "remove", "refresh"}
                               /\ task'[p] = Idle
    ]_vars

C5_Witness ==
  /\ Quiescent
  /\ last.op = "remove" /\ last.result = "store_error" /\ last.pre = "active"
  /\ is_key_monitored(last.public_key)

\* C6: Add of a malformed key (length other than 44, a character outside
\* the alphabet, or a decoded length other than 32) returns an
\* invalid-key-format error, writes nothing to the table and leaves the
\* cache unchanged.
C6_MalformedKeyRejected ==
  [][ \A p \in Handlers, u \in Users, k \in PublicKeyInputs,
         t \in SubscriptionTypes :
        (~WellFormedInput[k] /\ add_public_key(p, u, k, t))
          => /\ last'.op = "add" /\ last'.public_key = k
             /\ last'.result \in InvalidKeyFormat
             /\ subscribed_keys' = subscribed_keys
             /\ active_keys' = active_keys
             /\ task'[p] = Idle
    ]_vars

C6_Witness ==
  /\ last.op = "add" /\ last.public_key = KeyBig
  /\ last.result = "invalid_decoded_length"
  /\ subscribed_keys # {}

\* C7: Remove returns true exactly when it deactivated a row that was
\* active; when no active row matches (owner, key) it returns false.
C7_RemoveTrueIffWasActive ==
  (last.op = "remove" /\ last.result # "store_error")
    => (last.result = "true" <=> last.pre = "active")

\* C8: an Add that reactivates a soft-deleted (owner, key) leaves exactly one
\* row for the pair, active, and returns the id stored in that row.
C8_ReactivationReturnsStoredId ==
  (Quiescent /\ last.op = "add" /\ last.result = "ok" /\ last.pre = "inactive")
    => LET rows == RowsOf(subscribed_keys, last.user_id, last.public_key)
       IN  /\ Cardinality(rows) = 1
           /\ \A r \in rows : r.is_active /\ r.id = last.id

\* C9: an account notification for a monitored key carrying balance L
\* enqueues exactly one BalanceUpdate with new_balance = L, old_balance = 0,
\* change_amount = new_balance - old_balance and change_type = Transfer.
C9_AccountUpdateEnqueued ==
  (last_msg.kind = "account" /\ last_msg.present /\ last_msg.monitored)
    => /\ Len(balance_tx) = last_msg.balance_len + 1
       /\ LET e == balance_tx[Len(balance_tx)]
          IN  /\ e.public_key = last_msg.pubkey
              /\ e.new_balance = last_msg.lamports
              /\ e.old_balance = 0
              /\ e.change_amount = e.new_balance - e.old_balance
              /\ e.change_type = "Transfer"

\* C10: a transaction notification whose account list contains a monitored
\* key enqueues one TransactionEvent.
C10_TransactionEnqueued ==
  (last_msg.kind = "transaction" /\ last_msg.present /\ last_msg.monitored)
    => Len(transaction_tx) = last_msg.transaction_len + 1

\* ------------------------------------------------- claims on the subscriber
ErrOutcomes == {"connect_err", "subscribe_err", "stream_err"}

\* connect_and_subscribe returns Err in this step.
ErrReturn ==
  /\ pc \in {"connect", "subscribe", "streaming"}
  /\ pc' \in {"backoff", "terminated"}

\* The keys a request subscribes to.
RequestKeys(request) ==
  {request.accounts[i].account[1] : i \in 1..Len(request.accounts)}

\* C12: between receiving one stream message and reading the next, the read
\* loop performs no durable-store I/O: while a stream is open the stream
\* task is never inside a registry call that queries the store.
C12_ReadLoopOnlyEnqueues ==
  pc \in {"streaming", "handled"} => task[StreamTask].op = "idle"

\* The sleeps the claim lists, by number of consecutive failures.
ExpectedSleeps == <<2, 4, 8, 16, 32, 64, 64, 64, 64>>

\* C14: after the N-th consecutive failure (N below 10) the subscriber
\* sleeps 2^min(N,6) seconds; the sleeps of consecutive failures are
\* 2, 4, 8, 16, 32, 64, 64, ..., non-decreasing and at most 64.
C14_BackoffSchedule ==
  /\ Len(slept) <= Len(ExpectedSleeps)
  /\ \A i \in 1..Len(slept) :
       /\ slept[i] = ExpectedSleeps[i]
       /\ slept[i] <= 64
       /\ i > 1 => slept[i - 1] <= slept[i]
  /\ pc = "backoff" =>
       /\ Len(slept) = reconnect_attempts
       /\ sleeping = slept[Len(slept)]

C14_Witness ==
  pc = "backoff" /\ reconnect_attempts = 9 /\ sleeping = 64 /\ Len(slept) = 9

\* C15: a streaming session in which a message was received and that ended
\* without transport error resets the attempt counter to zero, and the
\* first failure after it sleeps the base 2 seconds.
C15_SessionResetsCounter ==
  /\ []((outcome = "session_ok" /\ pc \in {"connect", "snapshot", "subscribe"})
          => reconnect_attempts = 0)
  /\ [][(outcome = "session_ok" /\ ErrReturn)
          => (pc' = "backoff" /\ reconnect_attempts' = 1 /\ sleeping' = 2)]_vars

C15_Witness ==
  outcome = "session_ok" /\ pc = "connect" /\ reconnect_attempts = 0

\* C16: when a stream ends, with or without error, the subscriber increments
\* the attempt counter and sleeps a backoff delay (or gives up) before it
\* connects again.
C16_EveryOutcomeBacksOff ==
  [][(pc = "streaming" /\ pc' \notin {"streaming", "handled"})
       => (/\ reconnect_attempts' = reconnect_attempts + 1
           /\ pc' \in {"backoff", "terminated"})]_vars

\* C17: start returns exactly when the tenth consecutive call of
\* connect_and_subscribe fails; it then returns without sleeping, so at most
\* nine backoff sleeps happen in a row, and nothing else ends the loop.
C17_TerminatesOnlyAtMax ==
  /\ [](/\ Len(slept) <= 9
        /\ (pc = "terminated") <=> (reconnect_attempts = 10)
        /\ pc = "terminated" =>
             (Len(slept) = 9 /\ sleeping = 0 /\ outcome \in ErrOutcomes))
  /\ [][/\ (pc' = "terminated" /\ pc # "terminated")
             => (ErrReturn /\ Len(slept) = 9)
        /\ (ErrReturn /\ Len(slept) = 9) => pc' = "terminated"
        /\ pc = "terminated" => pc' = "terminated"]_vars

C17_Witness == pc = "terminated" /\ outcome = "stream_err" /\ active_keys # {}

\* C18: once the subscriber has given up, the process exits: no handler
\* serves a management request any more.
C18_TerminationStopsProcess ==
  [][pc = "terminated" => \A p \in Handlers : task'[p] = task[p]]_vars

\* C19: with an empty watch-list at connection time the subscriber waits
\* the 30 seconds of the idle interval with no connection to the streaming
\* endpoint open and no subscription request built.
C19_IdleWaitOpensNothing ==
  pc = "idle_wait" =>
    (~client /\ subscribe_request = NoRequest /\ sleeping = 30)

\* C20: the request of a connection has one account filter per key read at
\* connect time and one transaction filter (vote = false, failed = false,
\* account_include = those keys), and it does not change while the
\* connection is open, whatever the registry does meanwhile.
C20_FilterFixedPerConnection ==
  /\ [](pc \in {"subscribe", "streaming", "handled"} =>
          LET keys == RequestKeys(subscribe_request)
              tx == subscribe_request.transactions
          IN  /\ keys # {}
              /\ Cardinality(keys) = Len(subscribe_request.accounts)
              /\ \A i \in 1..Len(subscribe_request.accounts) :
                   Len(subscribe_request.accounts[i].account) = 1
              /\ Len(tx) = 1
              /\ tx[1].vote = FALSE
              /\ tx[1].failed = FALSE
              /\ {tx[1].account_include[i] :
                    i \in 1..Len(tx[1].account_include)} = keys
              /\ Len(tx[1].account_include) = Cardinality(keys))
  /\ [][/\ (pc = "snapshot" /\ pc' = "subscribe")
             => RequestKeys(subscribe_request') = active_keys
        /\ (pc \in {"subscribe", "streaming", "handled"}
            /\ pc' \in {"subscribe", "streaming", "handled"})
             => subscribe_request' = subscribe_request]_vars

C20_Witness ==
  /\ pc = "streaming"
  /\ active_keys # {}
  /\ RequestKeys(subscribe_request) # active_keys
  /\ Len(subscribe_request.accounts) = 2

Queued(i) ==
  \/ \E j \in 1..Len(balance_tx) : balance_tx[j].id = i
  \/ \E j \in 1..Len(transaction_tx) : transaction_tx[j].id = i
  \/ balance_proc.event.id = i
  \/ transaction_proc.event.id = i

Posted(i) == \E n \in notified : n.id = i

\* C13: a failure on one event, even of every event of the transaction
\* processor, keeps no other queued event from being dequeued and POSTed;
\* a processor leaves its loop only when its queue is closed and empty.
C13_FailureIsolation ==
  /\ [](/\ balance_proc.pc = "stopped"
             => (~senders_open /\ balance_tx = <<>>)
        /\ transaction_proc.pc = "stopped"
             => (~senders_open /\ transaction_tx = <<>>))
  /\ [][/\ balance_proc.pc = "post" /\ balance_proc' # balance_proc
             => /\ balance_proc' = Receiving
                /\ UNCHANGED <<transaction_tx, transaction_proc>>
        /\ transaction_proc.pc = "post" /\ transaction_proc' # transaction_proc
             => /\ transaction_proc' = Receiving
                /\ UNCHANGED <<balance_tx, balance_proc>>]_vars
  /\ \A i \in 1..4 : Queued(i) ~> Posted(i)

C13_Witness ==
  /\ [kind |-> "transaction", id |-> 3, outcome |-> "send_error"] \in notified
  /\ [kind |-> "transaction", id |-> 4, outcome |-> "send_error"] \in notified
  /\ [kind |-> "balance", id |-> 1, outcome |-> "send_error"] \in notified
  /\ [kind |-> "balance", id |-> 2, outcome |-> "success"] \in notified
  /\ Cardinality(notified) = 4

\* C28: when an Add and a Remove of the same (owner, key) have run
\* concurrently with no Refresh and both have returned, the cache contains
\* the key exactly when the owner's row is active.
C28_RaceEndsConsistent ==
  Quiescent =>
    \A u \in SubscriberUsers, k \in SubscriberKeys :
      is_key_monitored(k) <=> RowState(u, k) = "active"

\* C29: as long as no key has ever been added, so that the watch-list has
\* been empty since the start, the subscriber has not terminated and its
\* attempt counter is zero, whether or not the endpoint can be reached.
C29_EmptyWatchListNeverFatal ==
  (next_uuid = 0 /\ get_active_public_keys = {}) =>
    (pc # "terminated" /\ reconnect_attempts = 0)

\* C21: the snapshot is a copy.  While the connection built from it is open
\* no read guard of the cache is held, a handler's Add or Remove that has
\* executed its statement can update the cache at once, and a step that
\* changes the cache leaves the request built from the snapshot as it was.
C21_SnapshotIsCopy ==
  /\ [](pc \in {"subscribe", "streaming", "handled"} =>
          /\ ~ReadGuardHeld
          /\ task[SubscriberHandler].op = "add" =>
               ENABLED (AddCacheInsert(SubscriberHandler) /\ Frame)
          /\ task[SubscriberHandler].op = "remove" =>
               ENABLED (RemoveCacheDelete(SubscriberHandler) /\ Frame))
  /\ [][(active_keys' # active_keys /\ subscribe_request # NoRequest)
          => subscribe_request' = subscribe_request]_vars

C21_Witness ==
  /\ pc = "streaming"
  /\ RequestKeys(subscribe_request) = SubscriberKeys
  /\ active_keys = {KeyA}
  /\ task[SubscriberHandler].op = "remove"

\* C22: the cache changes only by whole updates.  A step that changes it is
\* the insert of an Add, the removal of a Remove, or the replacement of a
\* Refresh, which takes the cache from the set it held to the complete set
\* of rows the Refresh loaded and returns: no state shows the emptied or
\* partly refilled set to a reader.
C22_RefreshReplacesAtomically ==
  [][active_keys' # active_keys =>
       \E p \in Handlers :
         /\ task'[p] = Idle
         /\ \/ /\ task[p].op = "add"
               /\ active_keys' = active_keys \cup {task[p].public_key}
            \/ /\ task[p].op = "remove"
               /\ active_keys' = active_keys \ {task[p].public_key}
            \/ /\ task[p].op = "refresh"
               /\ active_keys' = task[p].rows
               /\ last'.op = "refresh" /\ last'.result = "ok"]_vars

C22_Witness ==
  /\ last.op = "refresh" /\ last.result = "ok" /\ last.pre = "stale"
  /\ active_keys = {KeyA}
  /\ \E p \in Handlers : task[p].op = "add" /\ task[p].public_key = KeyLead1

\* C23: a bulk call applies Add to every key in order and goes on after a
\* failure.  successful + failed is the number of keys, errors holds one
\* message per failed key in the order of the keys, the cache afterwards is
\* the cache before plus the keys whose Add succeeded, wherever a failing
\* key sits; three keys with the second malformed give 2 and 1.
C23_BulkAddContinuesPastFailures ==
  [][(last'.op = "bulk" /\ task' = task)
     => LET keys == last'.keys
            store == last'.store
            Good == {i \in 1..Len(keys) :
                       Validation[keys[i]] = "ok" /\ store[i]}
            Bad == (1..Len(keys)) \ Good
        IN  /\ last'.successful + last'.failed = Len(keys)
            /\ last'.successful = Cardinality(Good)
            /\ Len(last'.errors) = last'.failed
            /\ \A j \in 1..Len(last'.errors) :
                 LET i == CHOOSE b \in Bad :
                            Cardinality({c \in Bad : c <= b}) = j
                 IN  /\ last'.errors[j].public_key = keys[i]
                     /\ last'.errors[j].error # "ok"
            /\ \A i \in Good : keys[i] \in active_keys'
            /\ active_keys' = active_keys \cup {keys[i] : i \in Good}
            /\ (Good = {}) => subscribed_keys' = subscribed_keys
            /\ (Len(keys) = 3 /\ Bad = {2}) =>
                 (last'.successful = 2 /\ last'.failed = 1)]_vars

C23_Witness ==
  /\ last.op = "bulk"
  /\ last.keys = <<KeyA, KeyShort, KeyLead1>>
  /\ last.store = <<TRUE, TRUE, TRUE>>
  /\ last.successful = 2 /\ last.failed = 1
  /\ Len(last.errors) = 1 /\ last.errors[1].public_key = KeyShort
  /\ active_keys = {KeyA, KeyLead1}

\* C26: a DELETE /keys request that the store handles without error is
\* answered 200 with removed = true or removed = false; a Remove that
\* matches no row is answered 200 with removed = false.
C26_RemoveAnswers200 ==
  (last.op = "remove" /\ last.result \in {"true", "false"}) =>
    /\ RemoveResponse(last.result).status = 200
    /\ RemoveResponse(last.result).removed = last.result

C25_ShutdownInterruptsSleep ==
  /\ [](pc \in {"backoff", "idle_wait"} => ENABLED Shutdown)
  /\ [][/\ (pc \in {"backoff", "idle_wait"} /\ pc' = "stopped") =>
             /\ sleeping' = sleeping /\ sleeping > 0
             /\ reconnect_attempts' = reconnect_attempts
             /\ ~client'
        /\ pc # "stopped"]_vars

C25_Witness ==
  /\ pc = "stopped"
  /\ sleeping = 64 /\ reconnect_attempts = 6
  /\ outcome = "stream_err"

\* C27: key generation with threshold t and share count n returns, for
\* t <= n, exactly n shares keyed 1..n, each MPCKeyShare recording its own
\* index, t and n; for t > n it returns an error and no share.
C27_ThresholdSharesComplete ==
  keygen.fn # "none" =>
    LET t == keygen.threshold
        n == keygen.total_shares
        r == keygen.returned
    IN  /\ t <= n =>
             /\ r.ok
             /\ DOMAIN r.shares = 1..n
             /\ Cardinality(DOMAIN r.shares) = n
             /\ keygen.fn = "generate_threshold_keys" =>
                  \A i \in DOMAIN r.shares :
                    /\ r.shares[i].share_index = i
                    /\ r.shares[i].threshold = t
                    /\ r.shares[i].total_shares = n
        /\ t > n => (~r.ok /\ DOMAIN r.shares = {})

C27_Witness ==
  /\ keygen.fn = "generate_threshold_keys"
  /\ keygen.threshold = 2 /\ keygen.total_shares = 3
  /\ keygen.returned.ok
  /\ DOMAIN keygen.returned.shares = {1, 2, 3}

\* The sum of the amounts of the rows of one asset.
RECURSIVE SumAmounts(_)
SumAmounts(rows) ==
  IF rows = {} THEN 0
  ELSE LET r == CHOOSE x \in rows : TRUE
       IN  r.amount + SumAmounts(rows \ {r})

TotalOf(table, asset_id) ==
  SumAmounts({r \in table : r.asset_id = asset_id})

\* C30: a successful transfer, from a user to another or to the same user,
\* leaves the sum of the balances of every asset unchanged; a transfer
\* rejected with InsufficientBalance, for a missing sender row or an amount
\* above the sender's balance, changes no balance.
C30_TransferConservesAsset ==
  [][ledger_last'.op = "transfer" =>
       /\ ledger_last'.result = "ok" =>
            \A a \in Assets : TotalOf(balances', a) = TotalOf(balances, a)
       /\ ledger_last'.result = "InsufficientBalance" =>
            balances' = balances]_vars

====
